---- MODULE Spec2Model ----
(***************************************************************************)
(* Model of the noxcrypt block-buffered encoding Writer, decoding Reader   *)
(* and the legacy CRC (package crypt).                                     *)
(***************************************************************************)
EXTENDS Integers, Sequences, FiniteSets, TLC

(* ------------------------------ bounds -------------------------------- *)
\* longest trace of calls explored on one Writer
MaxOps == 4
\* longest trace of Writer calls explored before a Reader is bound (round trip)
MaxRTOps == 3
\* most Read calls explored on one Reader
MaxReads == 2
\* longest byte sequence fed to the checksum functions
MaxCRCLen == 3
\* longest trace of calls explored on one Reader
MaxROps == 4
\* most full blocks in the source a Reader is bound to
MaxBlocks == 2
\* longest trace of calls explored on a Writer whose sink runs out of room
MaxFailOps == 3
\* longest trace of calls explored on a Writer and a Reader without the
\* optional capabilities
MaxCapOps == 4

(* ----------------------------- constants ------------------------------ *)
Block == 8

Min(a, b) == IF a < b THEN a ELSE b
Max(a, b) == IF a > b THEN a ELSE b

\* var empty [Block]byte
empty == [i \in 1 .. Block |-> 0]

(* --------------------------- uint32 helpers --------------------------- *)
\* A uint32 is its four bytes, least significant first.
RECURSIVE Xor(_, _)
Xor(a, b) ==
    IF a = 0 THEN b
    ELSE IF b = 0 THEN a
    ELSE (((a % 2) + (b % 2)) % 2) + 2 * Xor(a \div 2, b \div 2)

\* a ^ b on bytes, tabulated once
XorTab == [a \in 0 .. 255 |-> [b \in 0 .. 255 |-> Xor(a, b)]]

Xor32(x, y) == [i \in 1 .. 4 |-> XorTab[x[i]][y[i]]]

\* ^crc
Not32(x) == [i \in 1 .. 4 |-> 255 - x[i]]

\* crc >> 1
Shr1(x) == [i \in 1 .. 4 |-> (x[i] \div 2) + (IF i < 4 THEN (x[i + 1] % 2) * 128 ELSE 0)]

\* crc >> 8
Shr8(x) == <<x[2], x[3], x[4], 0>>

\* uint32(i) for a byte i
U32(i) == <<i, 0, 0, 0>>

\* crc32.IEEE = 0xedb88320
IEEE == <<32, 131, 184, 237>>

\* const ZeroCRC = uint32(0xFFFFFFFF)
ZeroCRC == <<255, 255, 255, 255>>

\* const ZeroCRCStd = uint32(0)
ZeroCRCStd == <<0, 0, 0, 0>>

(* ------------------------------ crc_std.go ---------------------------- *)
RECURSIVE simplePopulateEntry(_, _, _)
simplePopulateEntry(poly, crc, j) ==
    IF j = 0 THEN crc
    ELSE simplePopulateEntry(poly,
                             IF crc[1] % 2 = 1 THEN Xor32(Shr1(crc), poly) ELSE Shr1(crc),
                             j - 1)

simpleMakeTable(poly) == [i \in 0 .. 255 |-> simplePopulateEntry(poly, U32(i), 8)]

crcTable == simpleMakeTable(IEEE)

\* one step of the per-byte loop: crc = tab[byte(crc)^v] ^ (crc >> 8)
crcStep(crc, v) == Xor32(crcTable[XorTab[crc[1]][v]], Shr8(crc))

RECURSIVE crcLoop(_, _, _)
crcLoop(crc, p, i) ==
    IF i > Len(p) THEN crc ELSE crcLoop(crcStep(crc, p[i]), p, i + 1)

\* faulty variant: simpleUpdate without the leading ^crc
simpleUpdateNoInvert(crc, p) == Not32(crcLoop(crc, p, 1))

\* func simpleUpdate(crc uint32, tab *crc32.Table, p []byte) uint32
simpleUpdate(crc, p) == Not32(crcLoop(Not32(crc), p, 1))

\* func UpdateCRC(crc uint32, p []byte) uint32
UpdateCRC(crc, p) == Not32(crcLoop(crc, p, 1))

\* func UpdateCRCStd(crc uint32, p []byte) uint32
UpdateCRCStd(crc, p) == simpleUpdate(crc, p)

(* ------------------------- keyed block cipher ------------------------- *)
\* A keyed bijection on blocks standing for blowfish: two Feistel rounds on
\* the 4-byte halves, bytewise addition modulo 256.
FeistelF(k, j, R) == [i \in 1 .. 4 |-> (R[(i % 4) + 1] * 7 + k + j + i) % 256]

AddHalf(A, B) == [i \in 1 .. 4 |-> (A[i] + B[i]) % 256]
SubHalf(A, B) == [i \in 1 .. 4 |-> (A[i] - B[i] + 256) % 256]

RoundEnc(k, j, b) ==
    LET L == SubSeq(b, 1, 4)
        R == SubSeq(b, 5, 8)
    IN  R \o AddHalf(L, FeistelF(k, j, R))

RoundDec(k, j, b) ==
    LET L2 == SubSeq(b, 1, 4)
        R2 == SubSeq(b, 5, 8)
    IN  SubHalf(R2, FeistelF(k, j, L2)) \o L2

Encrypt(k, b) == RoundEnc(k, 2, RoundEnc(k, 1, b))
Decrypt(k, b) == RoundDec(k, 1, RoundDec(k, 2, b))

(* ------------------------------- state -------------------------------- *)
VARIABLES
    w,       \* the Writer: buf, n, off, crc, NoZero, at (w.at != nil), c (key)
    sink,    \* the byte sink: data, limited/cap (room it has), wlens
    ret,     \* what the last call returned: op, n, off, err
    hist,    \* the calls made so far, with their arguments and results
    r,       \* the Reader: bound, buf, i, c (key), s (r.s != nil)
    source,  \* the byte source: data, pos
    rdOut,   \* the bytes the Reader delivered so far
    reads,   \* number of Read calls made
    cin,     \* inputs of the checksum functions: a, b
    cout     \* their results

vars == <<w, sink, ret, hist, r, source, rdOut, reads, cin, cout>>

(* ---------------------------- the byte sink --------------------------- *)
\* io.Writer.Write: appends what fits; short write is an error.
\* st is the writer together with its sink and the results of the call.
SinkWrite(st, p) ==
    LET room == IF st.limited
                THEN Min(Len(p), Max(0, st.cap - Len(st.sink)))
                ELSE Len(p)
    IN  [st EXCEPT !.sink = @ \o SubSeq(p, 1, room),
                   !.wlens = @ \cup {Len(p)},
                   !.err = room < Len(p)]

\* io.WriterAt.WriteAt: overwrites (and extends with zeros) at offset o.
SinkWriteAt(st, p, o) ==
    LET room == IF st.limited
                THEN Min(Len(p), Max(0, st.cap - o))
                ELSE Len(p)
        len == IF room = 0 THEN Len(st.sink) ELSE Max(Len(st.sink), o + room)
    IN  [st EXCEPT !.sink = [i \in 1 .. len |->
                                IF i > o /\ i <= o + room THEN p[i - o]
                                ELSE IF i <= Len(st.sink) THEN st.sink[i]
                                ELSE 0],
                   !.err = room < Len(p)]

(* ------------------------------- Writer ------------------------------- *)
\* func (w *Writer) ResetCRC()
ResetCRC(st) == [st EXCEPT !.crc = ZeroCRC]

\* func (w *Writer) CRC() uint32
CRC(st) == st.crc

\* func (w *Writer) Written() int64
Written(st) == st.off

\* faulty variant: flush handing the sink only the filled part, dst[:w.n]
flushPartial(st) ==
    LET s1 == [st EXCEPT !.crc = UpdateCRC(st.crc, st.buf)]
        dst == Encrypt(st.c, st.buf)
        s2 == SinkWrite(s1, SubSeq(dst, 1, st.n))
    IN  [s2 EXCEPT !.off = @ + (Block - st.n), !.n = 0]

\* faulty variant: flush that does not advance off to the block boundary
flushKeepOff(st) ==
    LET s1 == [st EXCEPT !.crc = UpdateCRC(st.crc, st.buf)]
        dst == Encrypt(st.c, st.buf)
        s2 == SinkWrite(s1, dst)
    IN  [s2 EXCEPT !.n = 0]

\* func (w *Writer) flush() error
flush(st) ==
    LET s1 == [st EXCEPT !.crc = UpdateCRC(st.crc, st.buf)]
        dst == Encrypt(st.c, st.buf)
        s2 == SinkWrite(s1, dst)
    IN  [s2 EXCEPT !.off = @ + (Block - st.n), !.n = 0]

\* faulty variant: Flush that never zero-fills the tail of the buffer
FlushNoZeroFill(st) ==
    IF st.n = 0 THEN [st EXCEPT !.err = FALSE] ELSE flush(st)

\* func (w *Writer) Flush() error
Flush(st) ==
    IF st.n = 0 THEN [st EXCEPT !.err = FALSE]
    ELSE IF ~st.NoZero /\ st.n # Len(st.buf)
         THEN flush([st EXCEPT !.buf = [i \in 1 .. Block |->
                                           IF i > st.n THEN empty[i - st.n] ELSE @[i]]])
         ELSE flush(st)

\* func (w *Writer) Close() error
Close(st) == Flush(st)

\* n := copy(w.buf[w.n:], p)
copyIn(st, p) ==
    LET k == Min(Block - st.n, Len(p))
    IN  [st EXCEPT !.buf = [i \in 1 .. Block |->
                               IF i > st.n /\ i <= st.n + k THEN p[i - st.n] ELSE @[i]],
                   !.k = k]

\* faulty variant: write advancing off by len(p) instead of the copied count
writeOffLenP(st, p) ==
    LET s0 == copyIn(st, p)
        s1 == [s0 EXCEPT !.n = @ + s0.k, !.off = @ + Len(p)]
    IN  IF s1.n = Len(s1.buf)
        THEN LET s2 == flush(s1)
             IN  IF s2.err THEN [s2 EXCEPT !.k = 0]
                 ELSE IF s2.NoZero THEN [s2 EXCEPT !.buf = empty]
                 ELSE s2
        ELSE [s1 EXCEPT !.err = FALSE]

\* faulty variant: write that never clears the buffer after a full block
writeNoClear(st, p) ==
    LET s0 == copyIn(st, p)
        s1 == [s0 EXCEPT !.n = @ + s0.k, !.off = @ + s0.k]
    IN  IF s1.n = Len(s1.buf)
        THEN LET s2 == flush(s1)
             IN  IF s2.err THEN [s2 EXCEPT !.k = 0] ELSE s2
        ELSE [s1 EXCEPT !.err = FALSE]

\* func (w *Writer) write(p []byte) (int, error)
write(st, p) ==
    LET s0 == copyIn(st, p)
        s1 == [s0 EXCEPT !.n = @ + s0.k, !.off = @ + s0.k]
    IN  IF s1.n = Len(s1.buf)
        THEN LET s2 == flush(s1)
             IN  IF s2.err THEN [s2 EXCEPT !.k = 0]
                 ELSE IF s2.NoZero THEN [s2 EXCEPT !.buf = empty]
                 ELSE s2
        ELSE [s1 EXCEPT !.err = FALSE]

\* the loop of Write: p = p[n:] until p is empty or an error
RECURSIVE WriteLoop(_, _, _)
WriteLoop(st, p, total) ==
    IF Len(p) = 0 THEN [st EXCEPT !.k = total, !.err = FALSE]
    ELSE LET s == write(st, p)
         IN  IF s.err THEN [s EXCEPT !.k = total + s.k]
             ELSE WriteLoop(s, SubSeq(p, s.k + 1, Len(p)), total + s.k)

\* func (w *Writer) Write(p []byte) (int, error)
Write(st, p) == WriteLoop(st, p, 0)

\* faulty variant: WriteEmpty returning the offset after the placeholder
WriteEmptyOffAfter(st) ==
    LET s1 == Flush(st)
    IN  IF s1.err THEN [s1 EXCEPT !.roff = 0]
        ELSE LET s2 == [s1 EXCEPT !.crc = UpdateCRC(s1.crc, empty)]
                 s3 == SinkWrite(s2, empty)
             IN  [s3 EXCEPT !.off = @ + Block, !.roff = s2.off + Block]

\* faulty variant: WriteEmpty that leaves the placeholder out of the checksum
WriteEmptyNoCRC(st) ==
    LET s1 == Flush(st)
    IN  IF s1.err THEN [s1 EXCEPT !.roff = 0]
        ELSE LET s3 == SinkWrite(s1, empty)
             IN  [s3 EXCEPT !.off = @ + Block, !.roff = s1.off]

\* func (w *Writer) WriteEmpty() (int64, error)
WriteEmpty(st) ==
    LET s1 == Flush(st)
    IN  IF s1.err THEN [s1 EXCEPT !.roff = 0]
        ELSE LET s2 == [s1 EXCEPT !.crc = UpdateCRC(s1.crc, empty)]
                 s3 == SinkWrite(s2, empty)
             IN  [s3 EXCEPT !.roff = s2.off, !.off = @ + Block]

\* faulty variant: WriteBlockAt writing at the end of the sink, not at off
WriteBlockAtAppend(st, V, o) ==
    IF ~st.at THEN [st EXCEPT !.err = TRUE]
    ELSE SinkWriteAt(st, Encrypt(st.c, V), Len(st.sink))

\* func (w *Writer) WriteBlockAt(buf [Block]byte, off int64) error
WriteBlockAt(st, V, o) ==
    IF ~st.at THEN [st EXCEPT !.err = TRUE]
    ELSE SinkWriteAt(st, Encrypt(st.c, V), o)

\* binary.LittleEndian.PutUint32 / PutUint64: the k low bytes of v, two's
\* complement for a negative v
RECURSIVE LittleEndian(_, _)
LittleEndian(v, k) ==
    IF k = 0 THEN <<>> ELSE <<v % 256>> \o LittleEndian(v \div 256, k - 1)

\* func (w *Writer) WriteU64At(v uint64, off int64) error
WriteU64At(st, v, o) == WriteBlockAt(st, LittleEndian(v, 8), o)

\* func (w *Writer) WriteU32At(v uint32, off int64) error
WriteU32At(st, v, o) ==
    WriteBlockAt(st, LittleEndian(v, 4) \o SubSeq(empty, 1, Block - 4), o)

\* func (w *Writer) WriteI64At(v int64, off int64) error
WriteI64At(st, v, o) == WriteU64At(st, v, o)

\* func (w *Writer) WriteI32At(v int32, off int64) error
WriteI32At(st, v, o) == WriteU32At(st, v, o)

(* ------------------------------- Reader ------------------------------- *)
\* func (r *Reader) Buffered() int
Buffered(st) == IF st.i < 0 \/ st.i >= Block THEN 0 ELSE Block - st.i

\* faulty variant: readNext that does not decrypt the fetched block
readNextNoDecrypt(st) ==
    LET avail == Len(st.data) - st.pos
    IN  IF avail >= Block
        THEN [st EXCEPT !.buf = SubSeq(st.data, st.pos + 1, st.pos + Block),
                        !.pos = @ + Block, !.i = 0, !.err = "nil"]
        ELSE [st EXCEPT !.buf = [j \in 1 .. Block |->
                                    IF j <= avail THEN st.data[st.pos + j] ELSE @[j]],
                        !.pos = Len(st.data),
                        !.err = IF avail = 0 THEN "EOF" ELSE "ErrUnexpectedEOF"]

\* func (r *Reader) readNext() error; io.ReadFull fills r.buf from the source
\* and on a short source leaves the bytes it got in r.buf.
readNext(st) ==
    LET avail == Len(st.data) - st.pos
    IN  IF avail >= Block
        THEN [st EXCEPT !.buf = Decrypt(st.c, SubSeq(st.data, st.pos + 1, st.pos + Block)),
                        !.pos = @ + Block, !.i = 0, !.err = "nil"]
        ELSE [st EXCEPT !.buf = [j \in 1 .. Block |->
                                    IF j <= avail THEN st.data[st.pos + j] ELSE @[j]],
                        !.pos = Len(st.data),
                        !.err = IF avail = 0 THEN "EOF" ELSE "ErrUnexpectedEOF"]

\* n := copy(p, r.buf[r.i:]); r.i += n  (m is the room left in p)
copyOut(st, m) ==
    LET k == Min(m, Block - st.i)
    IN  [st EXCEPT !.out = @ \o SubSeq(st.buf, st.i + 1, st.i + k),
                   !.i = @ + k, !.k = k, !.err = "nil"]

\* func (r *Reader) read(p []byte) (int, error)
read(st, m) ==
    IF st.i < 0 \/ st.i >= Block
    THEN LET s1 == readNext(st)
         IN  IF s1.err # "nil" THEN [s1 EXCEPT !.k = 0] ELSE copyOut(s1, m)
    ELSE copyOut(st, m)

\* the loop of Read: p = p[n:] until p is full or an error
RECURSIVE ReadLoop(_, _, _)
ReadLoop(st, m, total) ==
    IF m = 0 THEN [st EXCEPT !.k = total, !.err = "nil"]
    ELSE LET s == read(st, m)
         IN  IF s.err # "nil" THEN [s EXCEPT !.k = total + s.k]
             ELSE ReadLoop(s, m - s.k, total + s.k)

\* func (r *Reader) Read(p []byte) (int, error), with len(p) = m
Read(st, m) == ReadLoop(st, m, 0)

\* io.Seeker.Seek on the source: the new position, or an error (and the
\* position kept) when it would be negative
SourceSeek(st, off, whence) ==
    LET base == CASE whence = "SeekStart" -> 0
                  [] whence = "SeekCurrent" -> st.pos
                  [] whence = "SeekEnd" -> Len(st.data)
        np == base + off
    IN  IF np < 0 THEN [st EXCEPT !.err = "seek error"]
        ELSE [st EXCEPT !.pos = np, !.err = "nil"]

\* faulty variant: Align that refills whenever a block is loaded
AlignAlways(st) ==
    IF st.i >= 0 THEN readNext(st) ELSE [st EXCEPT !.err = "nil"]

\* func (r *Reader) Align() error
Align(st) ==
    IF Buffered(st) % Block # 0 THEN readNext(st) ELSE [st EXCEPT !.err = "nil"]

\* faulty variant: ReadAligned that does not align first
ReadAlignedNoAlign(st, m) ==
    LET s2 == Read(st, 8)
    IN  IF s2.err # "nil" THEN [s2 EXCEPT !.k = 0, !.out = <<>>]
        ELSE [s2 EXCEPT !.k = Min(m, 8), !.out = SubSeq(@, 1, Min(m, 8))]

\* func (r *Reader) ReadAligned(p []byte) (int, error), with len(p) = m;
\* out is what reached p
ReadAligned(st, m) ==
    LET s1 == Align(st)
    IN  IF s1.err # "nil" THEN [s1 EXCEPT !.k = 0]
        ELSE LET s2 == Read(s1, 8)
             IN  IF s2.err # "nil" THEN [s2 EXCEPT !.k = 0, !.out = <<>>]
                 ELSE [s2 EXCEPT !.k = Min(m, 8), !.out = SubSeq(@, 1, Min(m, 8))]

\* faulty variant: Seek that does not compensate the buffered bytes
SeekNoCompensate(st, off, whence) ==
    IF ~st.s THEN [st EXCEPT !.err = "cannot seek", !.k = 0]
    ELSE LET s1 == SourceSeek(st, off, whence)
             s2 == [s1 EXCEPT !.i = -1]
         IN  IF s1.err # "nil" THEN [s2 EXCEPT !.k = 0]
             ELSE LET cur == s1.pos
                      rem == cur % Block
                  IN  IF rem = 0 THEN [s2 EXCEPT !.k = cur]
                      ELSE LET s3 == SourceSeek(s2, 0 - rem, "SeekCurrent")
                               s4 == readNext(s3)
                           IN  IF s4.err # "nil" THEN [s4 EXCEPT !.k = 0]
                               ELSE [s4 EXCEPT !.i = rem, !.k = cur]

\* faulty variant: Seek that drops the loaded block before the capability check
SeekDropFirst(st, off, whence) ==
    IF ~st.s THEN [st EXCEPT !.err = "cannot seek", !.k = 0, !.i = -1]
    ELSE SeekNoCompensate(st, IF whence = "SeekCurrent" THEN off - Buffered(st) ELSE off,
                          whence)

\* func (r *Reader) Seek(off int64, whence int) (int64, error); k is the
\* offset returned
Seek(st, off, whence) ==
    IF ~st.s THEN [st EXCEPT !.err = "cannot seek", !.k = 0]
    ELSE LET off1 == IF whence = "SeekCurrent" THEN off - Buffered(st) ELSE off
             s1 == SourceSeek(st, off1, whence)
             s2 == [s1 EXCEPT !.i = -1]
         IN  IF s1.err # "nil" THEN [s2 EXCEPT !.k = 0]
             ELSE LET cur == s1.pos
                      rem == cur % Block
                  IN  IF rem = 0 THEN [s2 EXCEPT !.k = cur]
                      ELSE LET s3 == SourceSeek(s2, 0 - rem, "SeekCurrent")
                               s4 == readNext(s3)
                           IN  IF s4.err # "nil" THEN [s4 EXCEPT !.k = 0]
                               ELSE [s4 EXCEPT !.i = rem, !.k = cur]

(* --------------------------- packing the state ------------------------ *)
WSt ==
    [buf |-> w.buf, n |-> w.n, off |-> w.off, crc |-> w.crc, NoZero |-> w.NoZero,
     at |-> w.at, c |-> w.c,
     sink |-> sink.data, limited |-> sink.limited, cap |-> sink.cap,
     wlens |-> sink.wlens,
     err |-> FALSE, k |-> 0, roff |-> 0]

WOf(st) ==
    [buf |-> st.buf, n |-> st.n, off |-> st.off, crc |-> st.crc, NoZero |-> st.NoZero,
     at |-> st.at, c |-> st.c]

SinkOf(st) ==
    [data |-> st.sink, limited |-> st.limited, cap |-> st.cap, wlens |-> st.wlens]

RSt ==
    [buf |-> r.buf, i |-> r.i, c |-> r.c, s |-> r.s,
     data |-> source.data, pos |-> source.pos,
     err |-> "nil", k |-> 0, out |-> <<>>]

ROf(st) == [bound |-> TRUE, buf |-> st.buf, i |-> st.i, c |-> st.c, s |-> st.s]

SourceOf(st) == [data |-> st.data, pos |-> st.pos]

(* ------------------------------- inputs ------------------------------- *)
\* k consecutive byte values from v (mod 256)
Gen(v, k) == [i \in 1 .. k |-> (v + i - 1) % 256]

\* the payloads of Write: a byte, three bytes, a full block, a block and two bytes
Payloads == {<<7>>, <<1, 2, 3>>, Gen(251, Block), Gen(100, Block + 2)}
PatchValues == {[i \in 1 .. Block |-> 170]}
ReadLens == {3, Block, 4 * Block}
Keys == {5}
RTKeys == {5, 77}
CRCBytes == {0, 90, 255}
CRCSeqs == UNION {[1 .. k -> CRCBytes] : k \in 0 .. MaxCRCLen}
\* len(p) of the Reader calls: within a block, a whole block
RLens == {3, Block}
\* Seek arguments: aligned, mid-block, negative, relative to cursor and end
SeekArgs == {<<0, "SeekStart">>, <<5, "SeekStart">>, <<Block, "SeekStart">>,
             <<-1, "SeekStart">>, <<2, "SeekCurrent">>, <<-3, "SeekCurrent">>,
             <<-5, "SeekEnd">>}
\* bytes of a truncated trailing block left at the end of a source
Tails == {0, 5}
\* room of a sink that runs full
Caps == {0, Block, 2 * Block}
\* integers patched in by the integer variants
PatchInts == {258, -2}
PatchVariants == {"WriteU64At", "WriteU32At", "WriteI64At", "WriteI32At"}

\* the plaintext of a source of N blocks
Plain(N) == Gen(1, Block * N)

\* P, a whole number of blocks, encrypted block by block
RECURSIVE EncryptAll(_, _)
EncryptAll(key, P) ==
    IF Len(P) = 0 THEN <<>>
    ELSE Encrypt(key, SubSeq(P, 1, Block)) \o EncryptAll(key, SubSeq(P, Block + 1, Len(P)))

\* a source: N encrypted blocks and the first t bytes of one more
Stream(key, N, t) ==
    EncryptAll(key, Plain(N)) \o SubSeq(Encrypt(key, Gen(Block * N + 1, Block)), 1, t)

\* the offsets WriteEmpty returned without error
Reserved == {hist[j].off : j \in {x \in DOMAIN hist : hist[x].op = "WriteEmpty" /\ ~hist[x].err}}

\* a call: its arguments (p, o), its results (n, off, err) and, for the
\* record, the sink length when it was made (pos)
Call(op, p, o, n, off, err) ==
    [op |-> op, p |-> p, o |-> o, n |-> n, off |-> off, err |-> err,
     pos |-> Len(sink.data), fill |-> w.n]

\* a Reader call: its arguments (m = len(p), o, whence), its results (n, the
\* error) and the bytes it put into p (out)
RCall(op, m, o, whence, st) ==
    [op |-> op, m |-> m, o |-> o, whence |-> whence, n |-> st.k,
     err |-> st.err # "nil", kind |-> st.err, out |-> st.out]

NoRet == [op |-> "none", n |-> 0, off |-> 0, err |-> FALSE, kind |-> "nil"]

(* ---------------------------- initial states -------------------------- *)
\* &Writer{c: c} after Reset(w): zero buffer, n = 0, off = 0, crc = ZeroCRC
NewWriter(key, nz, a) ==
    [buf |-> empty, n |-> 0, off |-> 0, crc |-> ZeroCRC, NoZero |-> nz, at |-> a, c |-> key]

\* &Reader{c: c} after Reset(r)
NewReader(key, seekable) ==
    [bound |-> TRUE, buf |-> empty, i |-> -1, c |-> key, s |-> seekable]

Unbound == [bound |-> FALSE, buf |-> empty, i |-> -1, c |-> 0, s |-> FALSE]

NoCRC == [done |-> FALSE, split |-> ZeroCRCStd, whole |-> ZeroCRCStd,
          std |-> ZeroCRCStd, first |-> ZeroCRCStd]

IdleReader ==
    /\ r = Unbound
    /\ source = [data |-> <<>>, pos |-> 0]
    /\ rdOut = <<>>
    /\ reads = 0

IdleCRC ==
    /\ cin = [a |-> <<>>, b |-> <<>>]
    /\ cout = NoCRC

IdleWriter ==
    /\ sink = [data |-> <<>>, limited |-> FALSE, cap |-> 0, wlens |-> {}]
    /\ ret = NoRet
    /\ hist = <<>>

Init ==
    /\ w \in {NewWriter(key, nz, a) : key \in Keys, nz \in BOOLEAN, a \in BOOLEAN}
    /\ IdleWriter
    /\ IdleReader
    /\ IdleCRC

InitRT ==
    /\ w \in {NewWriter(key, nz, FALSE) : key \in RTKeys, nz \in BOOLEAN}
    /\ IdleWriter
    /\ IdleReader
    /\ IdleCRC

InitCRC ==
    /\ w \in {NewWriter(key, FALSE, FALSE) : key \in Keys}
    /\ IdleWriter
    /\ IdleReader
    /\ cin \in [a : CRCSeqs, b : CRCSeqs]
    /\ cout = NoCRC

\* a Reader on a source of N blocks, whole or truncated, seekable or not
InitR ==
    /\ w \in {NewWriter(key, FALSE, FALSE) : key \in Keys}
    /\ IdleWriter
    /\ r \in {NewReader(key, seekable) : key \in Keys, seekable \in BOOLEAN}
    /\ source \in {[data |-> Stream(key, N, t), pos |-> 0] :
                      key \in Keys, N \in 1 .. MaxBlocks, t \in Tails}
    /\ rdOut = <<>>
    /\ reads = 0
    /\ IdleCRC

\* a Writer on a sink with limited room
InitFail ==
    /\ w \in {NewWriter(key, nz, FALSE) : key \in Keys, nz \in BOOLEAN}
    /\ sink \in {[data |-> <<>>, limited |-> TRUE, cap |-> c, wlens |-> {}] : c \in Caps}
    /\ ret = NoRet
    /\ hist = <<>>
    /\ IdleReader
    /\ IdleCRC

\* a Writer on a sink with or without WriteAt; its Reader comes later
InitCap ==
    /\ w \in {NewWriter(key, FALSE, a) : key \in Keys, a \in BOOLEAN}
    /\ IdleWriter
    /\ IdleReader
    /\ IdleCRC

(* ------------------------------- actions ------------------------------ *)
Commit(st, call) ==
    /\ w' = WOf(st)
    /\ sink' = SinkOf(st)
    /\ ret' = [op |-> call.op, n |-> call.n, off |-> call.off, err |-> call.err,
               kind |-> IF call.err THEN "error" ELSE "nil"]
    /\ hist' = Append(hist, call)
    /\ UNCHANGED <<r, source, rdOut, reads, cin, cout>>

WriteCall(max) ==
    /\ Len(hist) < max
    /\ ~r.bound
    /\ \E p \in Payloads :
          LET st == Write(WSt, p)
          IN  Commit(st, Call("Write", p, 0, st.k, 0, st.err))

FlushCall(max) ==
    /\ Len(hist) < max
    /\ ~r.bound
    /\ LET st == Flush(WSt)
       IN  Commit(st, Call("Flush", <<>>, 0, 0, 0, st.err))

CloseCall(max) ==
    /\ Len(hist) < max
    /\ ~r.bound
    /\ LET st == Close(WSt)
       IN  Commit(st, Call("Close", <<>>, 0, 0, 0, st.err))

WriteEmptyCall(max) ==
    /\ Len(hist) < max
    /\ ~r.bound
    /\ LET st == WriteEmpty(WSt)
       IN  Commit(st, Call("WriteEmpty", <<>>, 0, 0, st.roff, st.err))

\* off is an offset previously returned by WriteEmpty
WriteBlockAtCall(max) ==
    /\ Len(hist) < max
    /\ ~r.bound
    /\ \E V \in PatchValues, o \in Reserved :
          LET st == WriteBlockAt(WSt, V, o)
          IN  Commit(st, Call("WriteBlockAt", V, o, 0, 0, st.err))

ResetCRCCall(max) ==
    /\ Len(hist) < max
    /\ ~r.bound
    /\ LET st == ResetCRC(WSt)
       IN  Commit(st, Call("ResetCRC", <<>>, 0, 0, 0, FALSE))

\* NewReader(src, key) on the bytes the sink received, with the writer's key
NewReaderCall ==
    /\ ~r.bound
    /\ r' = NewReader(w.c, FALSE)
    /\ source' = [data |-> sink.data, pos |-> 0]
    /\ rdOut' = <<>>
    /\ ret' = [NoRet EXCEPT !.op = "NewReader"]
    /\ UNCHANGED <<w, sink, hist, reads, cin, cout>>

ReadCall ==
    /\ r.bound
    /\ reads < MaxReads
    /\ ret.kind = "nil"
    /\ \E m \in ReadLens :
          LET st == Read(RSt, m)
          IN  /\ r' = ROf(st)
              /\ source' = SourceOf(st)
              /\ rdOut' = rdOut \o st.out
              /\ reads' = reads + 1
              /\ ret' = [op |-> "Read", n |-> st.k, off |-> 0,
                         err |-> st.err # "nil", kind |-> st.err]
              /\ UNCHANGED <<w, sink, hist, cin, cout>>

\* the integer patch variants, off as for WriteBlockAt
WriteIntAtCall(max) ==
    /\ Len(hist) < max
    /\ ~r.bound
    /\ \E f \in PatchVariants, v \in PatchInts, o \in Reserved :
          LET st == CASE f = "WriteU64At" -> WriteU64At(WSt, v, o)
                      [] f = "WriteU32At" -> WriteU32At(WSt, v, o)
                      [] f = "WriteI64At" -> WriteI64At(WSt, v, o)
                      [] f = "WriteI32At" -> WriteI32At(WSt, v, o)
          IN  /\ f \in {"WriteU64At", "WriteU32At"} => v >= 0
              /\ Commit(st, Call(f, <<v>>, o, 0, 0, st.err))

RCommit(st, call) ==
    /\ r' = ROf(st)
    /\ source' = SourceOf(st)
    /\ rdOut' = rdOut \o st.out
    /\ ret' = [op |-> call.op, n |-> call.n, off |-> 0, err |-> call.err,
               kind |-> call.kind]
    /\ hist' = Append(hist, call)
    /\ UNCHANGED <<w, sink, reads, cin, cout>>

\* Read at any time, after errors too
ReaderReadCall(max) ==
    /\ Len(hist) < max
    /\ r.bound
    /\ \E m \in RLens :
          LET st == Read(RSt, m)
          IN  RCommit(st, RCall("Read", m, 0, "", st))

AlignCall(max) ==
    /\ Len(hist) < max
    /\ r.bound
    /\ LET st == Align(RSt)
       IN  RCommit(st, RCall("Align", 0, 0, "", st))

ReadAlignedCall(max) ==
    /\ Len(hist) < max
    /\ r.bound
    /\ LET st == ReadAligned(RSt, Block)
       IN  RCommit(st, RCall("ReadAligned", Block, 0, "", st))

SeekCall(max) ==
    /\ Len(hist) < max
    /\ r.bound
    /\ \E a \in SeekArgs :
          LET st == Seek(RSt, a[1], a[2])
          IN  RCommit(st, RCall("Seek", 0, a[1], a[2], st))

\* apply the checksum functions to the inputs
CRCCall ==
    /\ ~cout.done
    /\ cout' = [done |-> TRUE,
                first |-> UpdateCRC(ZeroCRC, cin.a),
                split |-> UpdateCRC(UpdateCRC(ZeroCRC, cin.a), cin.b),
                whole |-> UpdateCRC(ZeroCRC, cin.a \o cin.b),
                std |-> UpdateCRCStd(ZeroCRCStd, cin.a \o cin.b)]
    /\ UNCHANGED <<w, sink, ret, hist, r, source, rdOut, reads, cin>>

Next ==
    \/ WriteCall(MaxOps)
    \/ FlushCall(MaxOps)
    \/ CloseCall(MaxOps)
    \/ WriteEmptyCall(MaxOps)
    \/ WriteBlockAtCall(MaxOps)
    \/ ResetCRCCall(MaxOps)

NextRT ==
    \/ WriteCall(MaxRTOps)
    \/ FlushCall(MaxRTOps)
    \/ NewReaderCall
    \/ ReadCall

NextCRC == CRCCall

NextR ==
    \/ ReaderReadCall(MaxROps)
    \/ AlignCall(MaxROps)
    \/ ReadAlignedCall(MaxROps)
    \/ SeekCall(MaxROps)

NextFail ==
    \/ WriteCall(MaxFailOps)
    \/ FlushCall(MaxFailOps)
    \/ WriteEmptyCall(MaxFailOps)

NextCap ==
    \/ WriteCall(MaxCapOps)
    \/ WriteEmptyCall(MaxCapOps)
    \/ WriteBlockAtCall(MaxCapOps)
    \/ WriteIntAtCall(MaxCapOps)
    \/ NewReaderCall
    \/ ReaderReadCall(MaxCapOps)
    \/ SeekCall(MaxCapOps)

Spec == Init /\ [][Next]_vars
SpecRT == InitRT /\ [][NextRT]_vars
SpecCRC == InitCRC /\ [][NextCRC]_vars
SpecR == InitR /\ [][NextR]_vars
SpecFail == InitFail /\ [][NextFail]_vars
SpecCap == InitCap /\ [][NextCap]_vars

(* ------------------------ vocabulary of the claims -------------------- *)
Zeros(k) == [i \in 1 .. k |-> 0]

\* P followed by zero bytes up to the next multiple of the block size
Padded(P) == P \o Zeros((Block - (Len(P) % Block)) % Block)

IsPrefix(a, b) == Len(a) <= Len(b) /\ SubSeq(b, 1, Len(a)) = a

LastN(q, k) == SubSeq(q, Len(q) - k + 1, Len(q))

\* the block of the byte sequence that begins at offset o
BlockAt(data, o) == SubSeq(data, o + 1, o + Block)

\* the bytes passed to the Write calls among the first j calls, in order
RECURSIVE WrittenUpTo(_, _)
WrittenUpTo(h, j) ==
    IF j = 0 THEN <<>>
    ELSE WrittenUpTo(h, j - 1) \o (IF h[j].op = "Write" THEN h[j].p ELSE <<>>)

AllWritten == WrittenUpTo(hist, Len(hist))

LastCall == hist[Len(hist)]

\* the step just taken is a call of op on the Writer
Stepped(op) == Len(hist') = Len(hist) + 1 /\ hist'[Len(hist')].op = op

\* the calls so far are Write calls followed by one Flush
WritesThenFlush ==
    /\ Len(hist) >= 1
    /\ LastCall.op = "Flush"
    /\ \A j \in 1 .. Len(hist) - 1 : hist[j].op = "Write"

(* -------------------------------- C1 ---------------------------------- *)
\* C1: round trip. When the calls on a fresh Writer (NoZero unset) are Write
\* calls followed by Flush, a Reader bound with the same key to the bytes the
\* sink received delivers a prefix of P padded with zeros to a multiple of the
\* block size, the only error it meets is EOF, and at EOF it has delivered
\* exactly the padded P.
C1_RoundTrip ==
    (r.bound /\ ~w.NoZero /\ WritesThenFlush) =>
        /\ IsPrefix(rdOut, Padded(AllWritten))
        /\ (ret.op = "Read" /\ ret.err) =>
              (ret.kind = "EOF" /\ rdOut = Padded(AllWritten))

C1_Witness ==
    /\ r.bound /\ ~w.NoZero /\ WritesThenFlush
    /\ Len(hist) = 3
    /\ Len(AllWritten) = 13
    /\ ret.op = "Read" /\ ret.kind = "EOF"
    /\ reads = 2
    /\ rdOut = AllWritten \o Zeros(3)

(* -------------------------------- C2 ---------------------------------- *)
\* C2: every sequential write the Writer issues to the sink is one block long,
\* and the sink length is a multiple of the block size.
C2_WholeBlocks ==
    /\ sink.wlens \subseteq {Block}
    /\ Len(sink.data) % Block = 0

C2_Witness ==
    /\ Len(hist) = 4
    /\ hist[1].op = "Write" /\ Len(hist[1].p) = 3
    /\ hist[2].op = "Flush"
    /\ hist[3].op = "WriteEmpty"
    /\ hist[4].op = "Write" /\ Len(hist[4].p) = Block + 2
    /\ Len(sink.data) = 3 * Block
    /\ sink.wlens = {Block}

(* -------------------------------- C3 ---------------------------------- *)
\* C3: with NoZero unset, a Flush with k pending bytes (0 < k < 8) appends
\* exactly one block to the sink, the encryption of those k bytes (the last k
\* bytes passed to Write) followed by 8-k zero bytes.
C3_FlushZeroPads ==
    [][(Stepped("Flush") /\ ~w.NoZero /\ 0 < w.n /\ w.n < Block) =>
          sink'.data = sink.data \o
                       Encrypt(w.c, LastN(AllWritten, w.n) \o Zeros(Block - w.n))]_vars

C3_Witness ==
    /\ ~w.NoZero
    /\ Len(hist) = 3
    /\ hist[1].op = "Write" /\ Len(hist[1].p) = Block
    /\ hist[2].op = "Write" /\ hist[2].p = <<1, 2, 3>>
    /\ hist[3].op = "Flush"
    /\ Len(sink.data) = 2 * Block
    /\ Decrypt(w.c, BlockAt(sink.data, Block)) = <<1, 2, 3, 0, 0, 0, 0, 0>>

(* -------------------------------- C4 ---------------------------------- *)
\* C4: checksum associativity. Continuing UpdateCRC from the value it
\* returned for A gives the value of A ++ B:
\* UpdateCRC(UpdateCRC(ZeroCRC, A), B) = UpdateCRC(ZeroCRC, A ++ B).
C4_Associative == cout.done => cout.split = cout.whole

(* -------------------------------- C5 ---------------------------------- *)
\* the sink length when ResetCRC was last called among the first j calls
RECURSIVE ResetPosUpTo(_, _)
ResetPosUpTo(h, j) ==
    IF j = 0 THEN 0
    ELSE IF h[j].op = "ResetCRC" THEN h[j].pos
    ELSE ResetPosUpTo(h, j - 1)

\* the plaintext of the blocks of data from offset o on
RECURSIVE PlainFrom(_, _, _)
PlainFrom(key, data, o) ==
    IF o + Block > Len(data) THEN <<>>
    ELSE Decrypt(key, BlockAt(data, o)) \o PlainFrom(key, data, o + Block)

OnlyWriteFlush == \A j \in 1 .. Len(hist) : hist[j].op \in {"Write", "Flush", "ResetCRC"}

\* C5: after Write/Flush calls that emitted at least one block since bind or
\* ResetCRC, CRC() is the legacy checksum, computed in one call, of the
\* plaintext of the blocks emitted since then.
C5_CRCOfPlaintext ==
    LET from == ResetPosUpTo(hist, Len(hist))
    IN  (OnlyWriteFlush /\ Len(sink.data) >= from + Block) =>
            CRC(WSt) = UpdateCRC(ZeroCRC, PlainFrom(w.c, sink.data, from))

(* -------------------------------- C6 ---------------------------------- *)
\* C6: over one contiguous call the legacy checksum is the standard CRC-32:
\* UpdateCRC(ZeroCRC, p) = UpdateCRCStd(ZeroCRCStd, p), p empty included.
C6_LegacyIsStd == cout.done => cout.whole = cout.std

\* the CRC-32 of the single byte 00 is 0xD202EF8D
C6_Witness ==
    /\ cout.done
    /\ cin.a = <<0>> /\ cin.b = <<>>
    /\ cout.whole = <<141, 239, 2, 210>>
    /\ cout.std = cout.whole

(* -------------------------------- C7 ---------------------------------- *)
\* C7: Written() is the sink length plus the buffer fill level; right after
\* Flush, Close or WriteEmpty it is a multiple of the block size and equals
\* the number of bytes on the sink.
C7_WrittenIsSinkPlusFill ==
    /\ Written(WSt) = Len(sink.data) + w.n
    /\ ret.op \in {"Flush", "Close", "WriteEmpty"} =>
          (Written(WSt) % Block = 0 /\ Written(WSt) = Len(sink.data))

C7_Witness ==
    /\ Len(hist) = 3
    /\ hist[1].op = "Write" /\ Len(hist[1].p) = Block
    /\ hist[2].op = "Write" /\ Len(hist[2].p) = 3
    /\ hist[3].op = "Close"
    /\ Written(WSt) = 2 * Block
    /\ Len(sink.data) = 2 * Block

(* -------------------------------- C8 ---------------------------------- *)
\* C8 as stated: Written() - sinkLength <= 8 - fill.
C8_AheadAtMostBlockMinusFill ==
    Written(WSt) - Len(sink.data) <= Block - w.n

\* C8 as amended: Written() is ahead of the sink by the buffer fill level,
\* which is less than one block: 0 <= Written() - sinkLength = fill <= 7.
C8_AheadLessThanBlock ==
    LET ahead == Written(WSt) - Len(sink.data)
    IN  ahead >= 0 /\ ahead <= Block - 1 /\ ahead = w.n

C8_Witness ==
    /\ w.n = 5
    /\ Len(sink.data) = Block
    /\ Written(WSt) = Block + 5

(* -------------------------------- C9 ---------------------------------- *)
\* C9: WriteEmpty flushes the pending bytes (one block that begins with
\* them), appends one block of 8 unencrypted zero bytes and returns the
\* block-aligned sink offset where that block begins, 0 on an empty writer;
\* Written() afterwards is the returned offset plus 8.
C9_WriteEmpty ==
    [][(Stepped("WriteEmpty") /\ ~ret'.err) =>
          LET start == Len(sink.data) + (IF w.n > 0 THEN Block ELSE 0)
          IN  /\ Len(sink'.data) = start + Block
              /\ SubSeq(sink'.data, 1, Len(sink.data)) = sink.data
              /\ w.n > 0 =>
                    SubSeq(Decrypt(w.c, BlockAt(sink'.data, Len(sink.data))), 1, w.n)
                        = LastN(AllWritten, w.n)
              /\ BlockAt(sink'.data, start) = Zeros(Block)
              /\ ret'.off = start
              /\ ret'.off % Block = 0
              /\ (hist = <<>> => ret'.off = 0)
              /\ Written(WSt)' = ret'.off + Block
              /\ w'.n = 0]_vars

C9_Witness ==
    /\ Len(hist) = 3
    /\ hist[1].op = "Write" /\ Len(hist[1].p) = Block + 2
    /\ hist[2].op = "Write" /\ Len(hist[2].p) = 3
    /\ hist[3].op = "WriteEmpty" /\ ~hist[3].err
    /\ ret.off = 2 * Block
    /\ Len(sink.data) = 3 * Block
    /\ BlockAt(sink.data, 2 * Block) = Zeros(Block)
    /\ Written(WSt) = 3 * Block

(* -------------------------------- C10 --------------------------------- *)
\* one call applied to a writer state
Apply(st, c) ==
    CASE c.op = "Write" -> Write(st, c.p)
      [] c.op = "Flush" -> Flush(st)
      [] c.op = "Close" -> Close(st)
      [] c.op = "WriteEmpty" -> WriteEmpty(st)
      [] c.op = "WriteBlockAt" -> WriteBlockAt(st, c.p, c.o)
      [] c.op = "ResetCRC" -> ResetCRC(st)

RECURSIVE Replay(_, _, _)
Replay(st, ops, j) ==
    IF j > Len(ops) THEN st ELSE Replay(Apply(st, ops[j]), ops, j + 1)

\* a fresh writer with this writer's key and flags, on an empty sink
FreshSt ==
    [WSt EXCEPT !.buf = empty, !.n = 0, !.off = 0, !.crc = ZeroCRC,
                !.sink = <<>>, !.wlens = {}]

\* the index in h of the WriteEmpty call that returned offset o
ReserveIndex(h, o) ==
    CHOOSE j \in 1 .. Len(h) : h[j].op = "WriteEmpty" /\ ~h[j].err /\ h[j].off = o

\* the calls h, ending with a patch of V at the offset reserved by call j,
\* as one sequential pass: V is written where the block was reserved
SequentialPass(h, j, V) ==
    SubSeq(h, 1, j - 1)
    \o <<[op |-> "Flush", p |-> <<>>, o |-> 0], [op |-> "Write", p |-> V, o |-> 0]>>
    \o SubSeq(h, j + 1, Len(h) - 1)

\* the step is a successful WriteBlockAt at a reserved offset, and only
\* writes of full blocks were made since that reservation
PatchAfterFullBlocks ==
    /\ Stepped("WriteBlockAt")
    /\ ~ret'.err
    /\ LET j == ReserveIndex(hist, hist'[Len(hist')].o)
       IN  \A x \in j + 1 .. Len(hist) :
              hist[x].op = "Write" /\ Len(hist[x].p) % Block = 0

\* C10: patch isolation. Reserving a block, writing full blocks and patching
\* the reserved block with V leaves the sink length and every other byte
\* unchanged, makes the block at the offset encrypt(V), and makes the sink
\* equal to that of one sequential pass writing V at that position.
C10_PatchIsolation ==
    [][PatchAfterFullBlocks =>
          LET c == hist'[Len(hist')]
              j == ReserveIndex(hist, c.o)
          IN  /\ Len(sink'.data) = Len(sink.data)
              /\ \A x \in 1 .. Len(sink.data) :
                    (x <= c.o \/ x > c.o + Block) => sink'.data[x] = sink.data[x]
              /\ BlockAt(sink'.data, c.o) = Encrypt(w.c, c.p)
              /\ sink'.data = Replay(FreshSt, SequentialPass(hist', j, c.p), 1).sink]_vars

C10_Witness ==
    /\ Len(hist) = 4
    /\ hist[1].op = "Write" /\ Len(hist[1].p) = 3
    /\ hist[2].op = "WriteEmpty" /\ hist[2].off = Block
    /\ hist[3].op = "Write" /\ Len(hist[3].p) = Block
    /\ hist[4].op = "WriteBlockAt" /\ hist[4].o = Block /\ ~hist[4].err
    /\ Len(sink.data) = 3 * Block
    /\ BlockAt(sink.data, Block) = Encrypt(w.c, hist[4].p)

(* ----------------------- C11: missing capabilities -------------------- *)
PatchOps == {"WriteBlockAt"} \cup PatchVariants

\* C11: a missing capability is an error with no side effect.  A WriteBlockAt
\* or integer patch call on a writer whose sink has no WriteAt returns an
\* error and leaves the writer and the sink as they were; a Seek on a reader
\* whose source cannot seek returns (0, error) and leaves the reader (cursor
\* and loaded block) and the source as they were.
C11_MissingCapability ==
    [][/\ (\E f \in PatchOps : Stepped(f)) /\ ~w.at
            => ret'.err /\ w' = w /\ sink' = sink
       /\ Stepped("Seek") /\ ~r.s
            => ret'.err /\ ret'.n = 0 /\ r' = r /\ source' = source]_vars

\* both cases happened: a patch was refused after a reservation, and a Seek
\* was refused while a block was loaded and partly consumed
C11_Witness ==
    /\ ret.op = "Seek" /\ ret.err /\ ~r.s /\ r.i > 0 /\ r.i < Block
    /\ ~w.at
    /\ \E j \in DOMAIN hist : hist[j].op \in PatchOps /\ hist[j].err
    /\ \E j \in DOMAIN hist : hist[j].op \in PatchVariants /\ hist[j].err

(* -------------------------- C12: seek consistency --------------------- *)
\* the source holds whole blocks only
WellFormed == Len(source.data) % Block = 0
\* its number of whole blocks
NBlocks == Len(source.data) \div Block

\* the first j calls of h all succeeded
AllOK(h, j) == \A x \in 1 .. j : ~h[x].err

RoundUp(x) == ((x + Block - 1) \div Block) * Block

\* the absolute target of the Seek call c made at logical position p
SeekTarget(c, p) ==
    CASE c.whence = "SeekStart" -> c.o
      [] c.whence = "SeekCurrent" -> p + c.o
      [] c.whence = "SeekEnd" -> Len(source.data) + c.o

\* the reader's logical position in the plaintext stream after the first j
\* calls of h, all successful: Read advances by its count, Align moves to the
\* next block boundary, ReadAligned takes the block after that, Seek moves to
\* its target
RECURSIVE LPos(_, _)
LPos(h, j) ==
    IF j = 0 THEN 0
    ELSE LET c == h[j]
             p == LPos(h, j - 1)
         IN  CASE c.op = "Read" -> p + c.n
               [] c.op = "Align" -> RoundUp(p)
               [] c.op = "ReadAligned" -> RoundUp(p) + Block
               [] c.op = "Seek" -> SeekTarget(c, p)

\* C12: seek consistency.  On a seekable source of N whole blocks, after
\* successful calls only, a Seek whose absolute target T (off from the start,
\* logical position + off from the cursor, length + off from the end) lies in
\* 0 .. 8N - 1 succeeds and returns T, and a Read of m bytes right after it,
\* with T + m <= 8N, succeeds and delivers the plaintext bytes T .. T + m - 1,
\* for aligned and mid-block T alike.
C12_SeekConsistency ==
    LET L == Len(hist)
    IN  r.bound /\ r.s /\ WellFormed /\ L > 0 /\ AllOK(hist, L - 1) =>
          /\ hist[L].op = "Seek"
                => LET T == SeekTarget(hist[L], LPos(hist, L - 1))
                   IN  T >= 0 /\ T < Block * NBlocks
                          => ~hist[L].err /\ hist[L].n = T
          /\ L > 1 /\ hist[L].op = "Read" /\ hist[L - 1].op = "Seek"
                => LET T == SeekTarget(hist[L - 1], LPos(hist, L - 2))
                       m == hist[L].m
                   IN  T >= 0 /\ T < Block * NBlocks /\ T + m <= Block * NBlocks
                          => /\ ~hist[L].err
                             /\ hist[L].n = m
                             /\ hist[L].out = SubSeq(Plain(NBlocks), T + 1, T + m)

\* a Read of 3, a Seek relative to the cursor landing mid-block, and a Read of
\* a whole block across the block boundary
C12_Witness ==
    /\ r.bound /\ r.s /\ WellFormed /\ Len(hist) = 3 /\ AllOK(hist, 3)
    /\ hist[1].op = "Read" /\ hist[1].m < Block
    /\ hist[2].op = "Seek" /\ hist[2].whence = "SeekCurrent" /\ hist[2].n % Block # 0
    /\ hist[3].op = "Read" /\ hist[3].m = Block

(* ----------------------- C13: alignment idempotence ------------------- *)
\* no block loaded, a freshly loaded block with cursor 0, or an exhausted block
Aligned == r.i < 0 \/ r.i = 0 \/ r.i >= Block

\* C13: alignment idempotence.  Align on an aligned reader succeeds, reads
\* nothing from the source and changes no reader state; and an Align that
\* directly follows an Align changes neither the reader nor the source and
\* succeeds or fails as the first did, so two in a row do what one does.
C13_AlignIdempotent ==
    [][Stepped("Align") =>
          /\ Aligned => ~ret'.err /\ r' = r /\ source' = source
          /\ Len(hist) > 0 /\ hist[Len(hist)].op = "Align"
                => r' = r /\ source' = source /\ ret'.err = hist[Len(hist)].err]_vars

\* an Align that discarded the rest of a partly consumed block and loaded the
\* next one, followed by a second Align
C13_Witness ==
    LET L == Len(hist)
    IN  /\ L >= 3 /\ AllOK(hist, L)
        /\ hist[L].op = "Align" /\ hist[L - 1].op = "Align"
        /\ hist[L - 2].op = "Read" /\ hist[L - 2].m < Block
        /\ r.i = 0 /\ source.pos = 2 * Block

(* ------------------- C14: truncated trailing block -------------------- *)
\* the plaintext bytes of the complete blocks of the source
PlainBytes == {Plain(NBlocks)[x] : x \in 1 .. Block * NBlocks}

\* a Read of m bytes needs a block the source cannot give in full: the
\* buffered bytes and the whole blocks left do not cover m
NeedsMissingBlock(m) ==
    m > Buffered(RSt) + Block * ((Len(source.data) - source.pos) \div Block)

\* C14: a truncated trailing block is a hard error.  A Read that needs a new
\* block when fewer than 8 bytes remain in the source returns the
\* end-of-data / short-read error, and the bytes it delivered are bytes of
\* complete blocks only, none of the truncated block.
C14_TruncatedIsError ==
    [][\A m \in RLens :
          Stepped("Read") /\ hist'[Len(hist')].m = m /\ NeedsMissingBlock(m) =>
              /\ ret'.err
              /\ ret'.kind \in {"EOF", "ErrUnexpectedEOF"}
              /\ ret'.n = Len(hist'[Len(hist')].out)
              /\ \A x \in 1 .. ret'.n : hist'[Len(hist')].out[x] \in PlainBytes]_vars

\* the same, for Reads made when no earlier call has failed
C14_AfterSuccesses ==
    [][\A m \in RLens :
          Stepped("Read") /\ hist'[Len(hist')].m = m /\ NeedsMissingBlock(m)
          /\ AllOK(hist, Len(hist)) =>
              /\ ret'.err
              /\ ret'.kind \in {"EOF", "ErrUnexpectedEOF"}
              /\ ret'.n = Len(hist'[Len(hist')].out)
              /\ \A x \in 1 .. ret'.n : hist'[Len(hist')].out[x] \in PlainBytes]_vars

(* --------------------- C15: failed emission of a block ---------------- *)
\* C15: when the sink's write fails while Write or Flush emits a block, the
\* block is not treated as committed: the pending bytes stay in the buffer
\* with their fill level and Written() does not count the unemitted block, so
\* Written() = sinkLength + fill after the failed call.
C15_FailedEmitNotCommitted ==
    ret.err /\ ret.op \in {"Write", "Flush"}
        => w.n > 0 /\ Written(WSt) = Len(sink.data) + w.n

(* ------------------------- C16: failed source seek -------------------- *)
\* C16: a Seek whose underlying source seek fails returns the error and
\* leaves the reader as if it had not been called: the loaded block and the
\* cursor are kept, so a Read made next delivers the bytes it would have
\* delivered without the Seek.
C16_FailedSeekKeepsBlock ==
    [][Stepped("Seek") /\ r.s /\ ret'.kind = "seek error" =>
          /\ ret'.err
          /\ r'.buf = r.buf /\ r'.i = r.i
          /\ \A m \in RLens : Read(RSt', m).out = Read(RSt, m).out]_vars

(* ------------------------------ C17: ReadAligned ---------------------- *)
\* C17: on a source of whole blocks, a successful ReadAligned consumes exactly
\* one whole source block: the 8 bytes it delivers are the plaintext of the one
\* block the source cursor stood at after any partly consumed block was
\* dropped (the loaded block itself when it is fresh, cursor 0), never bytes
\* of two blocks, and afterwards the loaded block is exhausted, Buffered() = 0.
C17_ReadAlignedOneBlock ==
    [][Stepped("ReadAligned") /\ WellFormed /\ ~ret'.err =>
          LET fresh == r.i = 0
              start == IF fresh THEN source.pos - Block ELSE source.pos
          IN  /\ start % Block = 0
              /\ start + Block <= Len(source.data)
              /\ ret'.n = Block
              /\ hist'[Len(hist')].out = SubSeq(Plain(NBlocks), start + 1, start + Block)
              /\ source'.pos = start + Block
              /\ Buffered(RSt') = 0]_vars

\* ReadAligned dropped the rest of a partly consumed block and took the next
C17_Witness ==
    LET L == Len(hist)
    IN  /\ L >= 2 /\ WellFormed /\ AllOK(hist, L)
        /\ hist[L - 1].op = "Read" /\ hist[L - 1].m < Block
        /\ hist[L].op = "ReadAligned"
        /\ hist[L].out = SubSeq(Plain(NBlocks), Block + 1, 2 * Block)

(* ---------------------------- C18: NoZero ----------------------------- *)
\* the call c emitted the block buffer: a Write that filled it, or a Flush,
\* Close or WriteEmpty made with bytes pending
Emits(c) ==
    \/ c.op = "Write" /\ c.fill + Len(c.p) >= Block
    \/ c.op \in {"Flush", "Close", "WriteEmpty"} /\ c.fill > 0

\* the last of the first j calls of h that emitted the block buffer, 0 if none
RECURSIVE LastEmit(_, _)
LastEmit(h, j) ==
    IF j = 0 THEN 0 ELSE IF Emits(h[j]) THEN j ELSE LastEmit(h, j - 1)

C19_OnlyWholeBlockPlaintext ==
    \A j \in DOMAIN hist :
        hist[j].op = "Read" =>
            \A x \in 1 .. Len(hist[j].out) : hist[j].out[x] \in PlainBytes

(* -------------------- C20: checksum of reserved blocks ---------------- *)
\* C20: WriteEmpty feeds the 8 zero bytes of the placeholder into the running
\* checksum (after the pending block, if any, zero-padded), and WriteBlockAt
\* and the integer patch variants never change the checksum, the logical
\* offset or the block buffer; so after a reservation, a block written and the
\* patch, CRC() is the checksum chained over zeros and the block, not over the
\* patched value.
C20_PatchOutsideCRC ==
    [][/\ Stepped("WriteEmpty") /\ ~ret'.err /\ ~w.NoZero =>
            LET before == IF w.n = 0 THEN w.crc
                          ELSE UpdateCRC(w.crc, LastN(AllWritten, w.n) \o Zeros(Block - w.n))
            IN  CRC(WSt') = UpdateCRC(before, Zeros(Block))
       /\ (\E f \in PatchOps : Stepped(f)) =>
            /\ CRC(WSt') = CRC(WSt) /\ Written(WSt') = Written(WSt)
            /\ w'.buf = w.buf /\ w'.n = w.n
            /\ Len(hist) = 2 /\ hist[1].op = "WriteEmpty" /\ hist[2].op = "Write"
               /\ Len(hist[2].p) = Block
                  => CRC(WSt') = UpdateCRC(UpdateCRC(ZeroCRC, Zeros(Block)), hist[2].p)]_vars

\* a reservation, a block written, and the reserved block patched with an
\* integer: the sink holds the value, the checksum the zeros
C20_Witness ==
    /\ Len(hist) = 3 /\ w.at
    /\ hist[1].op = "WriteEmpty" /\ hist[2].op = "Write" /\ Len(hist[2].p) = Block
    /\ hist[3].op = "WriteI32At" /\ ~hist[3].err /\ hist[3].p = <<-2>>
    /\ Decrypt(w.c, BlockAt(sink.data, 0)) = <<254, 255, 255, 255, 0, 0, 0, 0>>
    /\ CRC(WSt) = UpdateCRC(UpdateCRC(ZeroCRC, Zeros(Block)), hist[2].p)
    /\ CRC(WSt) # UpdateCRC(UpdateCRC(ZeroCRC, Decrypt(w.c, BlockAt(sink.data, 0))), hist[2].p)

====
